---- MODULE Spec2Model ----
(***************************************************************************)
(* Discrete-time multi-server queue simulation (src/server.py).            *)
(* src/mesa.py is the same engine without the statistics fields and with   *)
(* random.randint(2, 10) as the service time; its ServerAgent and its      *)
(* dispatch are line for line those modelled here.                         *)
(*                                                                         *)
(* One model step = arrival + dispatch, one tick of every scheduled agent  *)
(* in a random order, statistics accumulation, clock increment.            *)
(*                                                                         *)
(* Agents live in a heap: servers are indexed by their unique_id           *)
(* (0..num_servers-1, the index in self.servers), TaskAgents by creation   *)
(* order (1..Len(tasks)); a reference to a task is its index, NoTask is    *)
(* Python's None.  The schedule is the scheduler's agent list, appended to *)
(* by schedule.add.  Floats are sampled: rates are given in percent, the   *)
(* uniform draw random.random() is one of RandomDraws (percent), and       *)
(* int(random.expovariate(rate)) is one of the integers the call can       *)
(* return: 0, 1, 2 and one long service time, MaxService.                  *)
(*                                                                         *)
(* Fields named h_* are observations of the run (when a task started,      *)
(* when it completed, ...) that the program does not store; no operation   *)
(* of the program reads them.                                              *)
(***************************************************************************)
EXTENDS Integers, Sequences, FiniteSets, TLC

\* ---- bounds of the model ------------------------------------------------
MaxServers == 2
MaxSteps == 5
MaxService == 4

\* ---- Python's None -------------------------------------------------------
NoTask == 0
NoServer == -1
None == -1

\* ---- sampled inputs ------------------------------------------------------
\* task_arrival_rate in percent: below 0, 0, inside (0,1), 1, above 1
ArrivalRates == {-50, 0, 50, 100, 150}
\* task_service_rate: negative, zero, positive (only the sign decides what
\* random.expovariate does)
ServiceRates == {-1, 0, 1}
\* random.random() lies in [0,1): percent values 0..99
RandomDraws == {0, 50, 99}

VARIABLES
    num_servers, task_arrival_rate, task_service_rate, max_steps,
    schedule, running, current_step,
    total_queue_wait_time, total_time_in_system, total_tasks,
    servers, tasks,
    raised,       \* the exception that ended the driver loop, or "none"
    h_ticks_ok,   \* observation: every tick of the last schedule.step left
                  \* every server with busy <=> current_task present
    h_dispatch,   \* observation: the task the last step dispatched (or
                  \* NoTask) and the servers before and after lines 96-102
    h_order_same  \* observation: the last schedule.step left the heap that
                  \* ticking the servers in id order would have left

vars == <<num_servers, task_arrival_rate, task_service_rate, max_steps,
          schedule, running, current_step,
          total_queue_wait_time, total_time_in_system, total_tasks,
          servers, tasks, raised, h_ticks_ok, h_dispatch, h_order_same>>

\* ---- agents --------------------------------------------------------------
\* ServerAgent.__init__
ServerAgent(unique_id) ==
    [unique_id |-> unique_id,
     busy |-> FALSE,
     current_task |-> NoTask,
     total_service_time |-> 0,
     queue |-> <<>>,
     total_tasks_served |-> 0]

\* TaskAgent.__init__ (model.current_step is passed as step)
TaskAgent(unique_id, step, service_time) ==
    [unique_id |-> unique_id,
     initial_service_time |-> service_time,
     remaining_service_time |-> service_time,
     assigned_server |-> NoServer,
     arrival_time |-> step,
     queue_wait_time |-> 0,
     h_direct |-> FALSE,
     h_queued_on |-> NoServer,
     h_start |-> None,
     h_firstdec |-> None,
     h_done |-> None]

\* variant of begin_service: the wait is taken with the wrong sign
begin_service_neg(h, sid, t, step) ==
    [servers |-> [h.servers EXCEPT ![sid].busy = TRUE,
                                   ![sid].current_task = t],
     tasks |-> [h.tasks EXCEPT ![t].assigned_server = sid,
                               ![t].queue_wait_time = h.tasks[t].arrival_time - step,
                               ![t].h_start = step]]

\* variant of begin_service: the wait counts the starting step as waited
begin_service_late(h, sid, t, step) ==
    [servers |-> [h.servers EXCEPT ![sid].busy = TRUE,
                                   ![sid].current_task = t],
     tasks |-> [h.tasks EXCEPT ![t].assigned_server = sid,
                               ![t].queue_wait_time = step + 1 - h.tasks[t].arrival_time,
                               ![t].h_start = step]]

\* ServerAgent.begin_service, on the heap h = [servers, tasks]
begin_service(h, sid, t, step) ==
    [servers |-> [h.servers EXCEPT ![sid].busy = TRUE,
                                   ![sid].current_task = t],
     tasks |-> [h.tasks EXCEPT ![t].assigned_server = sid,
                               ![t].queue_wait_time = step - h.tasks[t].arrival_time,
                               ![t].h_start = step]]

\* variant of complete_service: the served counter is bumped twice
complete_service_twice(h, sid, step) ==
    LET t == h.servers[sid].current_task IN
    [servers |-> [h.servers EXCEPT
                    ![sid].busy = FALSE,
                    ![sid].total_service_time = @ + h.tasks[t].initial_service_time,
                    ![sid].total_tasks_served = @ + 2,
                    ![sid].current_task = NoTask],
     tasks |-> [h.tasks EXCEPT ![t].h_done = step]]

\* variant of complete_service: current_task is not cleared
complete_service_keeps_task(h, sid, step) ==
    LET t == h.servers[sid].current_task IN
    [servers |-> [h.servers EXCEPT
                    ![sid].busy = FALSE,
                    ![sid].total_service_time = @ + h.tasks[t].initial_service_time,
                    ![sid].total_tasks_served = @ + 1],
     tasks |-> [h.tasks EXCEPT ![t].h_done = step]]

\* ServerAgent.complete_service
complete_service(h, sid, step) ==
    LET t == h.servers[sid].current_task IN
    [servers |-> [h.servers EXCEPT
                    ![sid].busy = FALSE,
                    ![sid].total_service_time = @ + h.tasks[t].initial_service_time,
                    ![sid].total_tasks_served = @ + 1,
                    ![sid].current_task = NoTask],
     tasks |-> [h.tasks EXCEPT ![t].h_done = step]]

\* variant of Serve: a task whose service began in this step is not ticked
Serve_skips_fresh(h, sid, step) ==
    LET s == h.servers[sid]
        t == s.current_task
    IN  IF s.busy /\ t # NoTask /\ h.tasks[t].h_start # step
        THEN LET hd == [h EXCEPT
                          !.tasks[t].remaining_service_time = @ - 1,
                          !.tasks[t].h_firstdec = IF @ = None THEN step ELSE @]
             IN  IF hd.tasks[t].remaining_service_time <= 0
                 THEN complete_service(hd, sid, step)
                 ELSE hd
        ELSE h

\* variant of Serve: completion tests remaining < 0 instead of <= 0
Serve_strict(h, sid, step) ==
    LET s == h.servers[sid]
        t == s.current_task
    IN  IF s.busy /\ t # NoTask
        THEN LET hd == [h EXCEPT
                          !.tasks[t].remaining_service_time = @ - 1,
                          !.tasks[t].h_firstdec = IF @ = None THEN step ELSE @]
             IN  IF hd.tasks[t].remaining_service_time < 0
                 THEN complete_service(hd, sid, step)
                 ELSE hd
        ELSE h

\* the first half of ServerAgent.step (lines 18-21): serve the current task
\* for one tick and complete it when nothing remains
Serve(h, sid, step) ==
    LET s == h.servers[sid]
        t == s.current_task
    IN  IF s.busy /\ t # NoTask
        THEN LET hd == [h EXCEPT
                          !.tasks[t].remaining_service_time = @ - 1,
                          !.tasks[t].h_firstdec = IF @ = None THEN step ELSE @]
             IN  IF hd.tasks[t].remaining_service_time <= 0
                 THEN complete_service(hd, sid, step)
                 ELSE hd
        ELSE h

\* variant of Pull: the head is served but left in the queue
Pull_keeps_head(h, sid, step) ==
    LET s == h.servers[sid]
    IN  IF ~s.busy /\ Len(s.queue) > 0
        THEN begin_service(h, sid, Head(s.queue), step)
        ELSE h

\* variant of Pull: the last task of the queue is taken, not the first
Pull_lifo(h, sid, step) ==
    LET s == h.servers[sid]
        n == Len(s.queue)
    IN  IF ~s.busy /\ n > 0
        THEN begin_service([h EXCEPT !.servers[sid].queue = SubSeq(@, 1, n - 1)],
                           sid, s.queue[n], step)
        ELSE h

\* variant of Pull: a server with nothing queued takes the head of the
\* first non-empty queue of another server
Pull_steals(h, sid, step) ==
    LET s == h.servers[sid]
        donors == {j \in DOMAIN h.servers : Len(h.servers[j].queue) > 0}
        d == CHOOSE j \in donors : \A k \in donors : j <= k
    IN  IF ~s.busy /\ Len(s.queue) > 0
        THEN begin_service([h EXCEPT !.servers[sid].queue = Tail(@)],
                           sid, Head(s.queue), step)
        ELSE IF ~s.busy /\ donors # {}
        THEN begin_service([h EXCEPT !.servers[d].queue = Tail(@)],
                           sid, Head(h.servers[d].queue), step)
        ELSE h

\* the second half of ServerAgent.step (lines 23-24): take the head of the
\* queue when not busy
Pull(h, sid, step) ==
    LET s == h.servers[sid]
    IN  IF ~s.busy /\ Len(s.queue) > 0
        THEN begin_service([h EXCEPT !.servers[sid].queue = Tail(@)],
                           sid, Head(s.queue), step)
        ELSE h

\* variant of ServerAgent.step: the second `if` is an `elif`, so a server
\* that was busy at the start of its tick does not look at its queue
ServerAgent_step_elif(h, sid, step) ==
    IF h.servers[sid].busy /\ h.servers[sid].current_task # NoTask
    THEN Serve(h, sid, step)
    ELSE Pull(h, sid, step)

\* ServerAgent.step
ServerAgent_step(h, sid, step) == Pull(Serve(h, sid, step), sid, step)

\* busy <=> current_task present, for one server and for all of a heap
BusyIffTask(s) == s.busy <=> (s.current_task # NoTask)

AllBusyIffTask(h) == \A sid \in DOMAIN h.servers : BusyIffTask(h.servers[sid])

\* RandomActivation: the orders in which one schedule.step may tick the
\* servers (TaskAgent.step is `pass`, so where the tasks fall in the shuffle
\* changes nothing and only the servers' relative order is drawn)
ActivationOrders(n) ==
    {o \in [1..n -> 0..(n - 1)] : \A i, j \in 1..n : i # j => o[i] # o[j]}

\* the order that ticks the servers by ascending id
IdOrder(n) == [i \in 1..n |-> i - 1]

\* schedule.step(): tick the servers in the drawn order
RECURSIVE schedule_step(_, _, _)
schedule_step(h, order, step) ==
    IF order = <<>> THEN h
    ELSE schedule_step(ServerAgent_step(h, Head(order), step), Tail(order), step)

\* observation of schedule.step(): the invariant after each single tick
RECURSIVE TicksKeepBusyIffTask(_, _, _)
TicksKeepBusyIffTask(h, order, step) ==
    IF order = <<>> THEN TRUE
    ELSE LET h1 == ServerAgent_step(h, Head(order), step)
         IN  AllBusyIffTask(h1) /\ TicksKeepBusyIffTask(h1, Tail(order), step)

\* ---- the model -----------------------------------------------------------
\* variant of find_available_server: the last server that is not busy
find_available_server_last(srvs) ==
    LET free == {i \in DOMAIN srvs : ~srvs[i].busy}
    IN  IF free = {} THEN NoServer
        ELSE CHOOSE i \in free : \A j \in free : j <= i

\* QueueServerModel.find_available_server: first server that is not busy
find_available_server(srvs) ==
    LET free == {i \in DOMAIN srvs : ~srvs[i].busy}
    IN  IF free = {} THEN NoServer
        ELSE CHOOSE i \in free : \A j \in free : i <= j

\* variant of server_with_shortest_queue: the last minimum
server_with_shortest_queue_last(srvs) ==
    CHOOSE i \in DOMAIN srvs :
        /\ \A j \in DOMAIN srvs : Len(srvs[i].queue) <= Len(srvs[j].queue)
        /\ \A j \in DOMAIN srvs :
             Len(srvs[j].queue) = Len(srvs[i].queue) => j <= i

\* min(self.servers, key=lambda s: len(s.queue)): the first minimum
server_with_shortest_queue(srvs) ==
    CHOOSE i \in DOMAIN srvs :
        /\ \A j \in DOMAIN srvs : Len(srvs[i].queue) <= Len(srvs[j].queue)
        /\ \A j \in DOMAIN srvs :
             Len(srvs[j].queue) = Len(srvs[i].queue) => i <= j

\* values int(random.expovariate(rate)) can return (rate # 0): 0, 1, 2 and
\* the long service time MaxService for a positive rate; 0 and -MaxService
\* for a negative one (every value <= 0 is served alike: one tick)
expovariate_int(rate) ==
    IF rate > 0 THEN {0, 1, 2, MaxService}
    ELSE {0, 0 - MaxService}

\* lines 96-102: assign the new task t
Dispatch(h, t, step) ==
    LET available_server == find_available_server(h.servers)
    IN  IF available_server # NoServer
        THEN begin_service([h EXCEPT !.tasks[t].h_direct = TRUE],
                           available_server, t, step)
        ELSE [h EXCEPT
                !.servers[server_with_shortest_queue(h.servers)].queue =
                    Append(@, t),
                !.tasks[t].h_queued_on = server_with_shortest_queue(h.servers)]

\* lines 109-112: one pass over schedule.agents
RECURSIVE WaitOfAssigned(_, _)
WaitOfAssigned(sched, tsk) ==
    IF sched = <<>> THEN 0
    ELSE LET a == Head(sched)
         IN  (IF a.kind = "task" /\ tsk[a.ref].assigned_server # NoServer
              THEN tsk[a.ref].queue_wait_time ELSE 0)
             + WaitOfAssigned(Tail(sched), tsk)

RECURSIVE TimeOfAssigned(_, _, _)
TimeOfAssigned(sched, tsk, step) ==
    IF sched = <<>> THEN 0
    ELSE LET a == Head(sched)
         IN  (IF a.kind = "task" /\ tsk[a.ref].assigned_server # NoServer
              THEN step - tsk[a.ref].arrival_time ELSE 0)
             + TimeOfAssigned(Tail(sched), tsk, step)

\* QueueServerModel.__init__ : no parameter is checked
Init ==
    /\ num_servers \in 0..MaxServers
    /\ task_arrival_rate \in ArrivalRates
    /\ task_service_rate \in ServiceRates
    /\ max_steps \in 0..MaxSteps
    /\ schedule = [i \in 1..num_servers |-> [kind |-> "server", ref |-> i - 1]]
    /\ running = TRUE
    /\ current_step = 0
    /\ total_queue_wait_time = 0
    /\ total_time_in_system = 0
    /\ total_tasks = 0
    /\ servers = [i \in 0..(num_servers - 1) |-> ServerAgent(i)]
    /\ tasks = <<>>
    /\ raised = "none"
    /\ h_ticks_ok = TRUE
    /\ h_dispatch = [task |-> NoTask, before |-> servers, after |-> servers]
    /\ h_order_same = TRUE

\* the driver loop `while model.running: model.step()` is about to call step
Driving == running /\ raised = "none"

\* random.random() < self.task_arrival_rate, for every draw
Arrives == {u < task_arrival_rate : u \in RandomDraws}

\* variant of Finish: the termination test is > instead of >=
Finish_stops_late(h, sched, order) ==
    LET h2 == schedule_step(h, order, current_step)
    IN  /\ servers' = h2.servers
        /\ tasks' = h2.tasks
        /\ h_ticks_ok' = TicksKeepBusyIffTask(h, order, current_step)
        /\ h_order_same' =
             (h2 = schedule_step(h, IdOrder(num_servers), current_step))
        /\ total_queue_wait_time' =
             total_queue_wait_time + WaitOfAssigned(sched, h2.tasks)
        /\ total_time_in_system' =
             total_time_in_system + TimeOfAssigned(sched, h2.tasks, current_step)
        /\ current_step' = current_step + 1
        /\ running' = IF current_step + 1 > max_steps THEN FALSE ELSE running

\* lines 104-116, from the heap h left by the arrival branch
Finish(h, sched, order) ==
    LET h2 == schedule_step(h, order, current_step)
    IN  /\ servers' = h2.servers
        /\ tasks' = h2.tasks
        /\ h_ticks_ok' = TicksKeepBusyIffTask(h, order, current_step)
        /\ h_order_same' =
             (h2 = schedule_step(h, IdOrder(num_servers), current_step))
        /\ total_queue_wait_time' =
             total_queue_wait_time + WaitOfAssigned(sched, h2.tasks)
        /\ total_time_in_system' =
             total_time_in_system + TimeOfAssigned(sched, h2.tasks, current_step)
        /\ current_step' = current_step + 1
        /\ running' = IF current_step + 1 >= max_steps THEN FALSE ELSE running

\* QueueServerModel.step when the draw is not below the arrival rate
StepNoArrival ==
    /\ Driving
    /\ FALSE \in Arrives
    /\ \E order \in ActivationOrders(num_servers) :
         Finish([servers |-> servers, tasks |-> tasks], schedule, order)
    /\ h_dispatch' = [task |-> NoTask, before |-> servers, after |-> servers]
    /\ UNCHANGED <<num_servers, task_arrival_rate, task_service_rate, max_steps,
                   schedule, total_tasks, raised>>

\* QueueServerModel.step when a task arrives and is dispatched
StepArrival ==
    /\ Driving
    /\ TRUE \in Arrives
    /\ task_service_rate # 0
    /\ num_servers > 0
    /\ \E service_time \in expovariate_int(task_service_rate) :
       \E order \in ActivationOrders(num_servers) :
         LET t == Len(tasks) + 1
             new_task == TaskAgent(current_step, current_step, service_time)
             sched == Append(schedule, [kind |-> "task", ref |-> t])
             h0 == [servers |-> servers, tasks |-> Append(tasks, new_task)]
             h1 == Dispatch(h0, t, current_step)
         IN  /\ schedule' = sched
             /\ total_tasks' = total_tasks + 1
             /\ h_dispatch' = [task |-> t, before |-> servers,
                               after |-> h1.servers]
             /\ Finish(h1, sched, order)
    /\ UNCHANGED <<num_servers, task_arrival_rate, task_service_rate, max_steps,
                   raised>>

\* line 90: random.expovariate(0) divides by zero; step is left before any
\* assignment
StepZeroDivisionError ==
    /\ Driving
    /\ TRUE \in Arrives
    /\ task_service_rate = 0
    /\ raised' = "ZeroDivisionError"
    /\ UNCHANGED <<num_servers, task_arrival_rate, task_service_rate, max_steps,
                   schedule, running, current_step, total_queue_wait_time,
                   total_time_in_system, total_tasks, servers, tasks, h_ticks_ok,
                   h_dispatch, h_order_same>>

\* line 101: min() of an empty server list raises ValueError, after the task
\* was created, scheduled and counted
StepValueError ==
    /\ Driving
    /\ TRUE \in Arrives
    /\ task_service_rate # 0
    /\ num_servers = 0
    /\ \E service_time \in expovariate_int(task_service_rate) :
         /\ tasks' = Append(tasks, TaskAgent(current_step, current_step, service_time))
         /\ schedule' = Append(schedule, [kind |-> "task", ref |-> Len(tasks) + 1])
    /\ total_tasks' = total_tasks + 1
    /\ raised' = "ValueError"
    /\ UNCHANGED <<num_servers, task_arrival_rate, task_service_rate, max_steps,
                   running, current_step, total_queue_wait_time,
                   total_time_in_system, servers, h_ticks_ok, h_dispatch,
                   h_order_same>>

Next ==
    \/ StepNoArrival
    \/ StepArrival
    \/ StepZeroDivisionError
    \/ StepValueError

Spec == Init /\ [][Next]_vars

\* ---- queries -------------------------------------------------------------
\* QueueServerModel.get_queue_lengths
get_queue_lengths == [i \in 1..num_servers |-> Len(servers[i - 1].queue)]

\* QueueServerModel.get_busy_servers
get_busy_servers == Cardinality({i \in DOMAIN servers : servers[i].busy})

\* Python's int / int: a float, given here as the fraction num/den, or
\* ZeroDivisionError when the divisor is 0
TrueDiv(a, b) ==
    IF b = 0 THEN [raises |-> TRUE, num |-> 0, den |-> 1]
    ELSE [raises |-> FALSE, num |-> a, den |-> b]

\* the int a function returns as it is
Returned(a) == [raises |-> FALSE, num |-> a, den |-> 1]

\* variant of get_avg_time_in_queue: the total_tasks > 0 test is missing
get_avg_time_in_queue_unguarded == TrueDiv(total_queue_wait_time, total_tasks)

\* QueueServerModel.get_avg_time_in_queue
get_avg_time_in_queue ==
    IF total_tasks > 0 THEN TrueDiv(total_queue_wait_time, total_tasks)
    ELSE Returned(0)

\* QueueServerModel.get_avg_time_in_system
get_avg_time_in_system ==
    IF total_tasks > 0 THEN TrueDiv(total_time_in_system, total_tasks)
    ELSE Returned(0)

\* ---- helpers of the properties -------------------------------------------
\* the parameter domain the interface documents: num_servers > 0,
\* 0 <= arrival rate <= 1, service rate > 0, max_steps > 0
ValidConfig ==
    /\ num_servers > 0
    /\ task_arrival_rate >= 0 /\ task_arrival_rate <= 100
    /\ task_service_rate > 0
    /\ max_steps > 0

Tasks == DOMAIN tasks

Completed == {t \in Tasks : tasks[t].h_done # None}

RECURSIVE SumServed(_)
SumServed(ids) ==
    IF ids = {} THEN 0
    ELSE LET i == CHOOSE x \in ids : TRUE
         IN  servers[i].total_tasks_served + SumServed(ids \ {i})

RECURSIVE SumWait(_)
SumWait(ts) ==
    IF ts = {} THEN 0
    ELSE LET t == CHOOSE x \in ts : TRUE
         IN  tasks[t].queue_wait_time + SumWait(ts \ {t})

RECURSIVE SumSojourn(_)
SumSojourn(ts) ==
    IF ts = {} THEN 0
    ELSE LET t == CHOOSE x \in ts : TRUE
         IN  (tasks[t].h_done - tasks[t].arrival_time) + SumSojourn(ts \ {t})

\* ---- C1 ------------------------------------------------------------------
\* C1 as stated: a task dispatched directly to an idle server at step t is
\* not decremented by the tick of step t: its first decrement is not in its
\* arrival step, and at the end of that step its remaining service time
\* still equals its initial service time.
C1_NotTickedInArrivalStep ==
    \A t \in Tasks :
        tasks[t].h_direct =>
            /\ tasks[t].h_firstdec # tasks[t].arrival_time
            /\ (current_step = tasks[t].arrival_time + 1 =>
                  tasks[t].remaining_service_time = tasks[t].initial_service_time)

\* C1 (amended): a task dispatched directly to an idle server at step t IS
\* decremented by that server's tick in step t: its first decrement is in
\* its arrival step, and at the end of step t its remaining service time
\* equals its initial service time minus 1.
C1_TickedInArrivalStep ==
    \A t \in Tasks :
        tasks[t].h_direct =>
            /\ tasks[t].h_firstdec = tasks[t].arrival_time
            /\ (current_step = tasks[t].arrival_time + 1 =>
                  tasks[t].remaining_service_time =
                      tasks[t].initial_service_time - 1)

C1_Witness ==
    \E t \in Tasks :
        /\ tasks[t].h_direct
        /\ current_step = tasks[t].arrival_time + 1
        /\ tasks[t].initial_service_time >= 2
        /\ tasks[t].remaining_service_time = tasks[t].initial_service_time - 1
        /\ servers[tasks[t].assigned_server].current_task = t

C3_TotalsCountCompletedOnce ==
    /\ total_queue_wait_time = SumWait(Completed)
    /\ total_time_in_system = SumSojourn(Completed)

\* ---- C4 ------------------------------------------------------------------
\* C4: after every server tick and every model step, every server is busy
\* exactly when its current_task is present.
C4_BusyIffCurrentTask ==
    /\ \A sid \in DOMAIN servers : BusyIffTask(servers[sid])
    /\ h_ticks_ok

C4_Witness ==
    /\ h_ticks_ok
    /\ \E a, b \in DOMAIN servers :
         /\ servers[a].busy /\ servers[a].current_task # NoTask
         /\ ~servers[b].busy /\ servers[b].current_task = NoTask
         /\ servers[b].total_tasks_served > 0

\* ---- C5 ------------------------------------------------------------------
\* the saturation scenario, run to its end: one server, arrival rate 1.0,
\* five steps, an arrival in each, every service time 1 tick
C5_Scenario ==
    /\ num_servers = 1
    /\ task_arrival_rate = 100
    /\ task_service_rate > 0
    /\ max_steps = 5
    /\ ~running
    /\ raised = "none"
    /\ Len(tasks) = 5
    /\ \A t \in Tasks : tasks[t].initial_service_time = 1

\* C5 as stated: the saturation scenario ends with get_queue_lengths() == [4].
C5_SaturationLeavesFour == C5_Scenario => get_queue_lengths = <<4>>

\* C5 (amended): the saturation scenario ends with get_queue_lengths() ==
\* [0]: every task is served in the tick of the step it arrives in.
C5_SaturationLeavesNone == C5_Scenario => get_queue_lengths = <<0>>

C5_Witness == C5_Scenario /\ get_queue_lengths = <<0>> /\ current_step = 5

\* ---- C6 ------------------------------------------------------------------
\* C6 as stated: with two servers, the first two tasks that arrive are
\* routed to server 0 and then to server 1.
C6_FirstTwoOnDistinctServers ==
    (num_servers = 2 /\ Len(tasks) >= 2) =>
        /\ tasks[1].assigned_server = 0
        /\ tasks[2].assigned_server = 1

\* C6 (amended): with two servers, the first task that arrives is routed to
\* server 0; the second is routed to server 1 if the first is still in
\* service when it arrives, and to server 0 again if the first has already
\* completed.
C6_SecondTaskAvoidsBusyServer ==
    (num_servers = 2 /\ Len(tasks) >= 2) =>
        /\ tasks[1].assigned_server = 0
        /\ tasks[2].assigned_server =
             (IF tasks[1].h_done # None /\ tasks[1].h_done < tasks[2].arrival_time
              THEN 0 ELSE 1)

C6_Witness ==
    /\ num_servers = 2
    /\ Len(tasks) >= 2
    /\ tasks[1].assigned_server = 0
    /\ tasks[2].assigned_server = 1
    /\ tasks[2].h_direct

\* ---- C7 ------------------------------------------------------------------
\* C7: invalid parameters are rejected at construction, so no model built
\* from invalid parameters ever takes a step.
C7_InvalidConfigNeverSteps == current_step > 0 => ValidConfig

\* ---- C8 ------------------------------------------------------------------
\* C8: for max_steps >= 1 (and the other parameters in their documented
\* domain) the driver loop takes exactly max_steps steps: no step raises,
\* every step adds exactly 1 to current_step, running is true exactly while
\* current_step < max_steps (so it becomes false in the step that brings
\* current_step to max_steps, and the loop has then ended), and
\* current_step never exceeds max_steps.
C8_DriverRunsMaxSteps ==
    /\ [](ValidConfig =>
            /\ raised = "none"
            /\ current_step <= max_steps
            /\ (running <=> current_step < max_steps))
    /\ [][ValidConfig =>
            /\ running
            /\ current_step' = current_step + 1
            /\ (running' <=> current_step' # max_steps)]_vars

C8_Witness ==
    /\ ValidConfig
    /\ max_steps >= 2
    /\ ~running
    /\ current_step = max_steps

\* ---- C9 ------------------------------------------------------------------
\* C9: every completed task has queue_wait_time >= 0 and
\* arrival step <= step its service began <= step it completed.
C9_CompletedTaskTimesOrdered ==
    \A t \in Completed :
        /\ tasks[t].queue_wait_time >= 0
        /\ tasks[t].arrival_time <= tasks[t].h_start
        /\ tasks[t].h_start <= tasks[t].h_done

C9_Witness ==
    \E t \in Completed :
        /\ ~tasks[t].h_direct
        /\ tasks[t].queue_wait_time > 0
        /\ tasks[t].h_start < tasks[t].h_done

\* ---- C10 -----------------------------------------------------------------
\* C10: a task the dispatcher assigns directly to an idle server has
\* queue_wait_time = 0 and begins service in the step it arrived in, in
\* every later state of the run.
C10_DirectTaskNeverWaits ==
    \A t \in Tasks :
        tasks[t].h_direct =>
            /\ tasks[t].queue_wait_time = 0
            /\ tasks[t].h_start = tasks[t].arrival_time

C10_Witness ==
    \E t \in Completed :
        /\ tasks[t].h_direct
        /\ tasks[t].queue_wait_time = 0
        /\ current_step > tasks[t].h_done + 1

\* ---- C11 -----------------------------------------------------------------
\* C11: whenever total_tasks = 0, get_avg_time_in_queue() and
\* get_avg_time_in_system() raise nothing and return 0, and
\* total_queue_wait_time and total_time_in_system are still 0.
C11_EmptyRunAveragesAreZero ==
    total_tasks = 0 =>
        /\ ~get_avg_time_in_queue.raises
        /\ get_avg_time_in_queue.num = 0
        /\ ~get_avg_time_in_system.raises
        /\ get_avg_time_in_system.num = 0
        /\ total_queue_wait_time = 0
        /\ total_time_in_system = 0

C11_Witness ==
    /\ ValidConfig
    /\ max_steps >= 2
    /\ ~running
    /\ current_step = max_steps
    /\ total_tasks = 0
    /\ get_avg_time_in_queue = Returned(0)
    /\ get_avg_time_in_system = Returned(0)

\* ---- C12 -----------------------------------------------------------------
\* C12: with parameters in their documented domain, every task has
\* remaining_service_time >= 0 in every reachable state.
C12_RemainingNeverNegative ==
    ValidConfig => \A t \in Tasks : tasks[t].remaining_service_time >= 0

\* ---- C13 -----------------------------------------------------------------
\* the places that hold task t: <<sid, 0>> for the current_task slot of
\* server sid, <<sid, i>> for position i of its queue
Holders(t) ==
    {<<sid, 0>> : sid \in {x \in DOMAIN servers : servers[x].current_task = t}}
    \cup
    UNION {{<<sid, i>> : i \in {k \in 1..Len(servers[sid].queue) :
                                   servers[sid].queue[k] = t}} :
           sid \in DOMAIN servers}

\* C13: in every reachable state each task is held in at most one place
\* (one queue position or one current_task slot, never two), and a task
\* whose service has completed is held nowhere.
C13_TaskHeldAtMostOnce ==
    \A t \in Tasks :
        /\ Cardinality(Holders(t)) <= 1
        /\ (t \in Completed => Holders(t) = {})

C13_Witness ==
    /\ \E t \in Tasks : \E sid \in DOMAIN servers :
         Holders(t) = {<<sid, 0>>} /\ ~tasks[t].h_direct
    /\ \E t \in Tasks : \E sid \in DOMAIN servers : Holders(t) = {<<sid, 1>>}
    /\ \E t \in Completed : Holders(t) = {}

\* ---- C14 -----------------------------------------------------------------
\* C14: a newly arrived task is started on the lowest-id server that is not
\* busy if there is one; otherwise it is appended to the tail of the queue
\* of the server with the shortest queue, the lowest id winning among equal
\* lengths; no other server's queue or current task changes.
C14_DispatchPolicy ==
    LET t == h_dispatch.task
        b == h_dispatch.before
        a == h_dispatch.after
        free == {i \in DOMAIN b : ~b[i].busy}
        lowestFree == CHOOSE i \in free : \A j \in free : i <= j
        shortest == {i \in DOMAIN b :
                       \A j \in DOMAIN b : Len(b[i].queue) <= Len(b[j].queue)}
        lowestShortest == CHOOSE i \in shortest : \A j \in shortest : i <= j
    IN  t # NoTask =>
            IF free # {}
            THEN /\ a = [b EXCEPT ![lowestFree].busy = TRUE,
                                  ![lowestFree].current_task = t]
                 /\ tasks[t].assigned_server = lowestFree
                 /\ tasks[t].h_start = tasks[t].arrival_time
            ELSE /\ a = [b EXCEPT ![lowestShortest].queue = Append(@, t)]
                 /\ tasks[t].h_queued_on = lowestShortest

C14_Witness ==
    /\ num_servers = 2
    /\ h_dispatch.task # NoTask
    /\ \A i \in DOMAIN h_dispatch.before : h_dispatch.before[i].busy
    /\ Len(h_dispatch.before[0].queue) > Len(h_dispatch.before[1].queue)
    /\ h_dispatch.after[1].queue =
         Append(h_dispatch.before[1].queue, h_dispatch.task)
    /\ h_dispatch.after[0] = h_dispatch.before[0]

\* ---- C15 -----------------------------------------------------------------
\* what the tick of server sid in step k did, read from the tasks' records:
\* the tasks it took from its queue, the tasks it completed, and the tasks
\* that were in its queue when it ticked
TakenFromQueue(sid, k) ==
    {t \in Tasks : /\ tasks[t].assigned_server = sid
                   /\ ~tasks[t].h_direct
                   /\ tasks[t].h_start = k}

CompletedBy(sid, k) ==
    {t \in Tasks : tasks[t].assigned_server = sid /\ tasks[t].h_done = k}

WaitingAt(sid, k) ==
    {t \in Tasks : /\ tasks[t].h_queued_on = sid
                   /\ tasks[t].arrival_time <= k
                   /\ (tasks[t].h_start = None \/ tasks[t].h_start >= k)}

\* the head of a queue is the task that was appended first
HeadOf(ts) == CHOOSE t \in ts : \A u \in ts : t <= u

\* C15: in one tick a server removes at most one task from its queue and
\* completes at most one task; a server whose current task completes while
\* its queue is non-empty starts the head of the queue in that same tick
\* and ends the tick busy with it.
C15_CompleteThenStartInOneTick ==
    \A sid \in DOMAIN servers : \A k \in 0..(current_step - 1) :
        /\ Cardinality(TakenFromQueue(sid, k)) <= 1
        /\ Cardinality(CompletedBy(sid, k)) <= 1
        /\ (CompletedBy(sid, k) # {} /\ WaitingAt(sid, k) # {} =>
              LET head == HeadOf(WaitingAt(sid, k))
              IN  /\ TakenFromQueue(sid, k) = {head}
                  /\ (tasks[head].h_done = None \/ tasks[head].h_done > k)
                  /\ (k = current_step - 1 =>
                        /\ servers[sid].busy
                        /\ servers[sid].current_task = head))

C15_Witness ==
    \E sid \in DOMAIN servers :
        LET k == current_step - 1
        IN  /\ k >= 0
            /\ CompletedBy(sid, k) # {}
            /\ Cardinality(WaitingAt(sid, k)) >= 2
            /\ TakenFromQueue(sid, k) = {HeadOf(WaitingAt(sid, k))}
            /\ servers[sid].busy
            /\ Len(servers[sid].queue) >= 1

\* ---- C16 -----------------------------------------------------------------
\* C16: of two tasks appended to the same server's queue, the one appended
\* earlier begins service strictly before the other; a queued task is only
\* ever served by the server whose queue it was appended to; and every
\* queue holds, in the order they were appended, exactly the tasks appended
\* to it that have not begun service.
C16_QueueIsFifo ==
    /\ \A t1, t2 \in Tasks :
         (/\ t1 < t2
          /\ tasks[t1].h_queued_on # NoServer
          /\ tasks[t1].h_queued_on = tasks[t2].h_queued_on
          /\ tasks[t2].h_start # None)
         => /\ tasks[t1].h_start # None
            /\ tasks[t1].h_start < tasks[t2].h_start
    /\ \A t \in Tasks :
         (tasks[t].h_queued_on # NoServer /\ tasks[t].assigned_server # NoServer)
         => tasks[t].assigned_server = tasks[t].h_queued_on
    /\ \A sid \in DOMAIN servers :
         LET q == servers[sid].queue
         IN  /\ \A i, j \in 1..Len(q) : i < j => q[i] < q[j]
             /\ {q[i] : i \in 1..Len(q)} =
                  {t \in Tasks : /\ tasks[t].h_queued_on = sid
                                 /\ tasks[t].h_start = None}

C16_Witness ==
    \E t1, t2 \in Tasks :
        /\ t1 < t2
        /\ tasks[t1].h_queued_on # NoServer
        /\ tasks[t1].h_queued_on = tasks[t2].h_queued_on
        /\ tasks[t2].arrival_time <= tasks[t1].h_start
        /\ tasks[t1].h_start # None
        /\ tasks[t2].h_start # None
        /\ tasks[t1].h_start < tasks[t2].h_start

\* ---- C17 -----------------------------------------------------------------
\* C17: at the end of every model step, every server with a non-empty
\* queue is busy.
C17_NoIdleServerWithQueue ==
    \A sid \in DOMAIN servers :
        Len(servers[sid].queue) > 0 => servers[sid].busy

C17_Witness ==
    \E a, b \in DOMAIN servers :
        /\ Len(servers[a].queue) > 0
        /\ servers[a].busy
        /\ servers[a].total_tasks_served > 0
        /\ ~servers[b].busy
        /\ servers[b].queue = <<>>

\* ---- C18 -----------------------------------------------------------------
RECURSIVE SumQueued(_)
SumQueued(ids) ==
    IF ids = {} THEN 0
    ELSE LET i == CHOOSE x \in ids : TRUE
         IN  Len(servers[i].queue) + SumQueued(ids \ {i})

\* C18: after every model step (a step that returned, not one that raised),
\* total_tasks = (sum of total_tasks_served over the servers) + (number of
\* busy servers) + (sum of the queue lengths over the servers).
C18_TasksConserved ==
    raised = "none" =>
        total_tasks = SumServed(DOMAIN servers) + get_busy_servers
                      + SumQueued(DOMAIN servers)

C18_Witness ==
    /\ raised = "none"
    /\ current_step > 0
    /\ SumServed(DOMAIN servers) > 0
    /\ get_busy_servers > 0
    /\ SumQueued(DOMAIN servers) > 0
    /\ total_tasks = SumServed(DOMAIN servers) + get_busy_servers
                     + SumQueued(DOMAIN servers)

\* ---- C19 -----------------------------------------------------------------
\* the unique_id of the agent a schedule entry refers to
UniqueIdOf(a) ==
    IF a.kind = "server" THEN servers[a.ref].unique_id
    ELSE tasks[a.ref].unique_id

\* C19: no two agents registered in the schedule have the same unique_id:
\* no task has the unique_id of a server or of another task.
C19_UniqueIdsDistinct ==
    \A i, j \in 1..Len(schedule) :
        i # j => UniqueIdOf(schedule[i]) # UniqueIdOf(schedule[j])

\* ---- C20 -----------------------------------------------------------------
\* C20: for the same arrival and service time, the state a model step
\* leaves (every server's fields, every task's fields, the model totals) is
\* the same for every order in which schedule.step() ticks the servers: it
\* is the state that ticking them by ascending id leaves.
C20_ActivationOrderIrrelevant == h_order_same

C20_Witness ==
    /\ h_order_same
    /\ num_servers = 2
    /\ current_step > 0
    /\ \A sid \in DOMAIN servers :
         \E t \in Tasks :
             /\ tasks[t].assigned_server = sid
             /\ tasks[t].h_done = current_step - 1
    /\ \E sid \in DOMAIN servers :
         TakenFromQueue(sid, current_step - 1) # {}

====
